---- MODULE Spec2Model ----
(***************************************************************************)
(* Model of the novaCrypto native pipeline: the JNI entry points of        *)
(* src/src/jni.rs and the codec wrapper of src/src/compression.rs.         *)
(*                                                                         *)
(* A Context is a record held in a heap cell; its handle is the address    *)
(* of the cell.  Buffers are heap cells holding a byte sequence.  Bytes    *)
(* are the numbers 0 .. ByteVals-1.  The DEFLATE codec of libdeflater is   *)
(* modelled by a run-length code with an end-of-stream marker (lossless,   *)
(* not the identity, with an output bound and the two decompression        *)
(* errors).  The cipher stage (crate::encryption, not part of the sources  *)
(* at hand) is modelled from its design description.                       *)
(***************************************************************************)
EXTENDS Integers, Sequences, FiniteSets, TLC

\* ------------------------------------------------------------------ bounds
ByteVals == 2
MaxLen == 2
MaxPrealloc == 1
MaxCtx == 2
MaxCalls == 2
PairCalls == 4
NumKeys == 1

\* ------------------------------------------------------ program constants
NULL == 0
DefaultPreallocSize == 2 * 1024 * 1024
I32Max == 2147483647

Byte == 0 .. (ByteVals - 1)
Keys == 1 .. NumKeys
IVs == {1}

Min(a, b) == IF a < b THEN a ELSE b

\* The byte sequences the host submits from its own memory: of every
\* length up to MaxLen, one of changing bytes and one of a repeated byte.
HostData ==
  {[i \in 1 .. n |-> i % ByteVals] : n \in 0 .. MaxLen}
  \cup {[i \in 1 .. n |-> 1] : n \in 0 .. MaxLen}

\* Every usize above I32Max.  The only such sizes the program can hold
\* come from a negative jint (2^64 + n on a 64-bit target, 2^32 + n on a
\* 32-bit one), and all of them exceed isize::MAX.
UsizeHuge == I32Max

\* `n as usize` on a jint.
AsUsize(n) == IF n >= 0 THEN n ELSE UsizeHuge

\* A Vec of n bytes cannot be allocated: `capacity overflow`.
CapacityOverflow(n) == n >= UsizeHuge

\* `x as i32` on a usize.
AsI32(n) == IF n <= I32Max THEN n ELSE ((n - I32Max) - 1) - I32Max - 1

\* The address of an empty Vec's buffer: NonNull::dangling() for u8, the
\* alignment of u8.  Not null, and no allocation.
Dangling == 1

\* ------------------------------------------------------------ libdeflater
MaxRun == ByteVals - 1

RECURSIVE RunLen(_)
RunLen(s) ==
  IF Len(s) <= 1 THEN Len(s)
  ELSE IF s[2] = s[1] /\ MaxRun > 1
       THEN Min(MaxRun, 1 + RunLen(Tail(s)))
       ELSE 1

\* The compressed stream of s: (count, value) pairs, then the marker 0.
RECURSIVE Deflate(_)
Deflate(s) ==
  IF s = <<>> THEN <<0>>
  ELSE <<RunLen(s), s[1]>> \o Deflate(SubSeq(s, RunLen(s) + 1, Len(s)))

Inflated(ok, out) == [ok |-> ok, out |-> out]

InflatedRun(count, value, rest) ==
  Inflated(rest.ok, [i \in 1 .. count |-> value] \o rest.out)

\* The decoding of a stream t: ok is FALSE on a malformed stream.  Input
\* after the end marker is ignored.
RECURSIVE Inflate(_)
Inflate(t) ==
  IF t = <<>> THEN Inflated(FALSE, <<>>)
  ELSE IF t[1] = 0 THEN Inflated(TRUE, <<>>)
  ELSE IF Len(t) < 2 THEN Inflated(FALSE, <<>>)
  ELSE InflatedRun(t[1], t[2], Inflate(SubSeq(t, 3, Len(t))))

deflate_compress_bound(n) == 2 * n + 1

\* Result<usize>: is_err, the value on success, the bytes left in the
\* output slice (never more than the slice holds).
CodecResult(is_err, n, bytes) == [is_err |-> is_err, n |-> n, bytes |-> bytes]

Compressed(z, cap) ==
  IF Len(z) > cap
  THEN CodecResult(TRUE, 0, SubSeq(z, 1, cap))
  ELSE CodecResult(FALSE, Len(z), z)

deflate_compress(data, cap) == Compressed(Deflate(data), cap)

Decompressed(r, cap) ==
  IF ~r.ok THEN CodecResult(TRUE, 0, <<>>)
  ELSE IF Len(r.out) > cap THEN CodecResult(TRUE, 0, SubSeq(r.out, 1, cap))
  ELSE CodecResult(FALSE, Len(r.out), r.out)

deflate_decompress(data, cap) == Decompressed(Inflate(data), cap)

\* ---------------------------------------------------------------- Context
None == <<>>
Some(v) == <<v>>

\* The Context literal of createNewContext, with its two codec handles.
Context(encryption_mode_toggle, compressor, decompressor) ==
  [encryption_mode_toggle |-> encryption_mode_toggle,
   debug |-> FALSE,
   counter |-> 0,
   key |-> None,
   aes |-> None,
   digest |-> 0,
   prealloc_size |-> DefaultPreallocSize,
   compressor |-> compressor,
   decompressor |-> decompressor]

\* createNewContext populating both codec handles.
createNewContextBoth(encryption_mode_toggle) ==
  Context(encryption_mode_toggle, Some("Compressor"), Some("Decompressor"))

\* The Context built by createNewContext.  Option fields are None or
\* Some(v); aes holds the (key, iv) pair the cipher object was built from.
createNewContext(encryption_mode_toggle) ==
  IF encryption_mode_toggle
  THEN Context(encryption_mode_toggle, Some("Compressor"), None)
  ELSE Context(encryption_mode_toggle, None, Some("Decompressor"))

\* context.init_state(key, iv), called by enableCrypto.
init_state(ctx, key, iv) ==
  [ctx EXCEPT !.key = Some(key), !.aes = Some(<<key, iv>>)]

\* The byte arrays the host passes: Some(v) converts to v, None is a
\* reference convert_byte_array fails on.
JavaArrays(S) == {Some(v) : v \in S} \cup {None}

\* What an entry point that returns nothing does: the context it leaves
\* and whether it panicked.
Left(panic, ctx) == [panic |-> panic, ctx |-> ctx]

\* enableCrypto storing the key before the IV is converted.
enableCryptoKeyFirst(ctx, key, iv) ==
  IF key = None THEN Left(TRUE, ctx)
  ELSE IF iv = None THEN Left(TRUE, [ctx EXCEPT !.key = Some(key[1])])
  ELSE Left(FALSE, init_state(ctx, key[1], iv[1]))

\* enableCrypto: both conversions are unwrapped before the context is
\* touched.
enableCrypto(ctx, key, iv) ==
  IF key = None \/ iv = None
  THEN Left(TRUE, ctx)
  ELSE Left(FALSE, init_state(ctx, key[1], iv[1]))

\* The debug setter reversing the mode when debug is turned on.
debugFlipping(ctx, debug_mode) ==
  [ctx EXCEPT !.debug = debug_mode,
              !.encryption_mode_toggle = IF debug_mode THEN ~@ ELSE @]

\* The debug setter installing a key and a cipher object as well.
debugEnabling(ctx, debug_mode) ==
  [ctx EXCEPT !.debug = debug_mode, !.key = Some(1), !.aes = Some(<<1, 1>>)]

debug(ctx, debug_mode) == [ctx EXCEPT !.debug = debug_mode]

\* The size setter keeping the larger of the old and the new size.
preallocSizeGrowing(ctx, prealloc_size) ==
  [ctx EXCEPT !.prealloc_size =
     IF AsUsize(prealloc_size) > ctx.prealloc_size
     THEN AsUsize(prealloc_size) ELSE ctx.prealloc_size]

preallocSize(ctx, prealloc_size) ==
  [ctx EXCEPT !.prealloc_size = AsUsize(prealloc_size)]

\* ----------------------------------------------------------------- cipher
RECURSIVE Sum(_)
Sum(s) == IF s = <<>> THEN 0 ELSE s[1] + Sum(Tail(s))

\* The cipher input of a call: derived from key, IV and the counter.
KeyStream(key, iv, counter, i) == (key + iv + counter + i) % ByteVals

Digest(counter, data, key) == (Sum(data) + counter + key) % ByteVals

Encrypt(key, iv, counter, data) ==
  [i \in 1 .. Len(data) |-> (data[i] + KeyStream(key, iv, counter, i)) % ByteVals]

Decrypt(key, iv, counter, data) ==
  [i \in 1 .. Len(data) |->
     (data[i] + ByteVals - KeyStream(key, iv, counter, i)) % ByteVals]

\* The result of one cipher operation: the context with its counter
\* advanced, the counter value the operation used, the bytes produced.
Ciphered(ctx, out) ==
  [ctx |-> [ctx EXCEPT !.counter = ctx.counter + 1], input |-> ctx.counter, out |-> out]

\* The decrypted bytes with the digest checked and stripped: nothing when
\* the check fails.
Verified(ctx, plain) ==
  IF Len(plain) = 0
     \/ plain[Len(plain)]
          # Digest(ctx.counter, SubSeq(plain, 1, Len(plain) - 1), ctx.key[1])
  THEN <<>>
  ELSE SubSeq(plain, 1, Len(plain) - 1)

\* CryptoT::process: one cipher operation.  Encode appends the digest of
\* the data and encrypts; Decode decrypts, checks the digest and strips
\* it, with the empty result on a failed check.  Either way the counter
\* advances by one.
CipherProcess(ctx, data) ==
  IF ctx.encryption_mode_toggle
  THEN Ciphered(ctx, Encrypt(ctx.aes[1][1], ctx.aes[1][2], ctx.counter,
                             Append(data, Digest(ctx.counter, data, ctx.key[1]))))
  ELSE Ciphered(ctx, Verified(ctx, Decrypt(ctx.aes[1][1], ctx.aes[1][2],
                                           ctx.counter, data)))

\* ------------------------------------------------- CompressT for Context
\* An allocation made during a call and its fate: "freed" (dropped),
\* "owned" (part of a value still held), "returned" (forgotten, its
\* address in the descriptor) or "leaked" (forgotten, its address nowhere).
Alloc(kind, bytes, fate) == [kind |-> kind, bytes |-> bytes, fate |-> fate]

\* A Vec of n bytes allocates only when n > 0.
VecAlloc(n, bytes, fate) == IF n > 0 THEN <<Alloc("Vec", bytes, fate)>> ELSE <<>>

\* What decompress returns, a Box<Vec<u8>>.  panic: an unwrap failed.
\* failed: the codec reported an error.  bytes: the contents of the Vec.
\* written: the bytes the codec left in the preallocated buffer.  allocs:
\* the allocations made, those of the returned Box owned.
Boxed(panic, failed, bytes, written, allocs) ==
  [panic |-> panic, failed |-> failed, bytes |-> bytes, written |-> written,
   allocs |-> allocs]

\* decompress with the codec's error ignored: the buffer is returned as
\* the codec left it.
decompressIgnoringError(ctx, prealloc_size, result) ==
  Boxed(FALSE, result.is_err, result.bytes, Len(result.bytes),
        VecAlloc(prealloc_size, result.bytes, "owned") \o <<Alloc("Box", <<>>, "owned")>>)

\* decompress resizing the buffer to one byte more than the codec
\* produced, where the buffer has room for it.
decompressPadded(ctx, prealloc_size, result) ==
  IF CapacityOverflow(prealloc_size)
  THEN Boxed(TRUE, TRUE, <<>>, 0, <<>>)
  ELSE IF result.is_err
  THEN Boxed(FALSE, TRUE, <<>>, Len(result.bytes),
             VecAlloc(prealloc_size, <<>>, "freed")
             \o <<Alloc("Box", <<>>, "freed"), Alloc("Box", <<>>, "owned")>>)
  ELSE Boxed(FALSE, FALSE,
             SubSeq(result.bytes \o <<0>>, 1, Min(result.n + 1, prealloc_size)),
             Len(result.bytes),
             VecAlloc(prealloc_size, result.bytes, "owned")
             \o <<Alloc("Box", <<>>, "owned")>>)

\* decompress resizing the buffer to nothing on success.
decompressEmptied(ctx, prealloc_size, result) ==
  IF CapacityOverflow(prealloc_size)
  THEN Boxed(TRUE, TRUE, <<>>, 0, <<>>)
  ELSE Boxed(FALSE, result.is_err, <<>>, Len(result.bytes),
             VecAlloc(prealloc_size, <<>>, "owned") \o <<Alloc("Box", <<>>, "owned")>>)

\* decompress, from the codec's result on: the error check and the resize.
decompressChecked(ctx, prealloc_size, result) ==
  IF CapacityOverflow(prealloc_size)
  THEN Boxed(TRUE, TRUE, <<>>, 0, <<>>)
  ELSE IF ctx.decompressor = None
  THEN Boxed(TRUE, TRUE, <<>>, 0, VecAlloc(prealloc_size, <<>>, "freed"))
  ELSE IF result.is_err
  THEN Boxed(FALSE, TRUE, <<>>, Len(result.bytes),
             VecAlloc(prealloc_size, <<>>, "freed")
             \o <<Alloc("Box", <<>>, "freed"), Alloc("Box", <<>>, "owned")>>)
  ELSE Boxed(FALSE, FALSE, SubSeq(result.bytes, 1, result.n), Len(result.bytes),
             VecAlloc(prealloc_size, SubSeq(result.bytes, 1, result.n), "owned")
             \o <<Alloc("Box", <<>>, "owned")>>)

decompress(ctx, data, prealloc_size) ==
  decompressChecked(ctx, prealloc_size, deflate_decompress(data, prealloc_size))

\* compress, from the codec's result on: the unwrap and the resize.
compressUnwrapped(ctx, compressed_size, actual) ==
  IF ctx.compressor = None \/ actual.is_err
  THEN [panic |-> TRUE, bytes |-> <<>>,
        allocs |-> VecAlloc(compressed_size, <<>>, "freed")]
  ELSE [panic |-> FALSE, bytes |-> SubSeq(actual.bytes, 1, actual.n),
        allocs |-> VecAlloc(compressed_size, SubSeq(actual.bytes, 1, actual.n), "owned")]

\* compress into a buffer of the context's preallocation size.
compressPreallocated(ctx, data, size) ==
  compressUnwrapped(ctx, ctx.prealloc_size, deflate_compress(data, ctx.prealloc_size))

\* compress: the Vec<u8> it returns.
compress(ctx, data, size) ==
  compressUnwrapped(ctx, deflate_compress_bound(size),
                    deflate_compress(data, deflate_compress_bound(size)))

\* ------------------------------------------------------------- process
\* mem::forget of a value: its buffer stays allocated under the address
\* the descriptor carries, its Box stays allocated with no address kept.
Forgotten(a) ==
  IF a.fate # "owned" THEN a
  ELSE [a EXCEPT !.fate = IF a.kind = "Vec" THEN "returned" ELSE "leaked"]

Forget(allocs) == [i \in 1 .. Len(allocs) |-> Forgotten(allocs[i])]

\* A value dropped at the end of its scope.
Dropped(a) == IF a.fate # "owned" THEN a ELSE [a EXCEPT !.fate = "freed"]

Drop(allocs) == [i \in 1 .. Len(allocs) |-> Dropped(allocs[i])]

\* as_ptr() of a Vec: its buffer if it has one, else the dangling address.
\* The buffer is named by its index in the call's allocations.
InBuffer(i) == [tag |-> "alloc", idx |-> i]
AtNull == [tag |-> "null", idx |-> 0]
AtDangling == [tag |-> "dangling", idx |-> 0]

RECURSIVE OwnedVec(_, _)
OwnedVec(allocs, i) ==
  IF i > Len(allocs) THEN AtDangling
  ELSE IF allocs[i].kind = "Vec" /\ allocs[i].fate = "owned" THEN InBuffer(i)
  ELSE OwnedVec(allocs, i + 1)

as_ptr(allocs) == OwnedVec(allocs, 1)

\* The outcome of a process call: the context after it, whether it
\* panicked, the (pointer, size) handed to create_jvm_fat_pointer, the
\* bytes of the result, the stages run, the lines printed, the cipher
\* inputs used, the bytes the codec wrote into the preallocated buffer and
\* the allocations made.
Outcome(ctx, panic, ptr, bytes, stages, prints, inputs, written, allocs) ==
  [ctx |-> ctx, panic |-> panic, ptr |-> ptr, size |-> Len(bytes), bytes |-> bytes,
   stages |-> stages, prints |-> prints, inputs |-> inputs, written |-> written,
   allocs |-> allocs]

\* `result_ptr = v.as_ptr(); result_size = v.len(); mem::forget(v)` for the
\* value v still owned among the allocations `held`.
Handed(ctx, held, bytes, stages, prints, inputs, written) ==
  Outcome(ctx, FALSE, as_ptr(held), bytes, stages, prints, inputs, written, Forget(held))

\* The same with v dropped instead of forgotten.
HandedDropped(ctx, held, bytes, stages, prints, inputs, written) ==
  Outcome(ctx, FALSE, as_ptr(held), bytes, stages, prints, inputs, written, Drop(held))

\* `return create_jvm_fat_pointer(env, 0 as i64, 0 as i32)` after a cipher
\* stage that yielded nothing.
ShortCircuit(decrypted) ==
  Outcome(decrypted.ctx, FALSE, AtNull, <<>>, <<"cipher">>, 0, <<decrypted.input>>, 0,
          VecAlloc(Len(decrypted.out), decrypted.out, "freed"))

Panicked(ctx, stages, prints, inputs, allocs) ==
  Outcome(ctx, TRUE, AtNull, <<>>, stages, prints, inputs, 0, Drop(allocs))

\* The decrypted Vec, dropped when process returns.
Spent(decrypted) == VecAlloc(Len(decrypted.out), decrypted.out, "freed")

\* The encode branch with debug output (two lines printed).
EncodeDebugProcessed(compressed, processed) ==
  Handed(processed.ctx,
         Drop(compressed.allocs) \o VecAlloc(Len(processed.out), processed.out, "owned"),
         processed.out, <<"compress", "cipher">>, 2, <<processed.input>>, 0)

EncodeDebugCompressed(ctx, compressed) ==
  IF compressed.panic
  THEN Panicked(ctx, <<"compress">>, 0, <<>>, compressed.allocs)
  ELSE EncodeDebugProcessed(compressed, CipherProcess(ctx, compressed.bytes))

EncodeDebug(ctx, data, size) == EncodeDebugCompressed(ctx, compress(ctx, data, size))

\* The encode branch without debug output.
EncodePlainProcessed(compressed, processed) ==
  Handed(processed.ctx,
         Drop(compressed.allocs) \o VecAlloc(Len(processed.out), processed.out, "owned"),
         processed.out, <<"compress", "cipher">>, 0, <<processed.input>>, 0)

EncodePlainCompressed(ctx, compressed) ==
  IF compressed.panic
  THEN Panicked(ctx, <<"compress">>, 0, <<>>, compressed.allocs)
  ELSE EncodePlainProcessed(compressed, CipherProcess(ctx, compressed.bytes))

\* The encode branch running the cipher stage twice.
EncodePlainTwiceProcessed(compressed, first, processed) ==
  Handed(processed.ctx,
         Drop(compressed.allocs) \o VecAlloc(Len(processed.out), processed.out, "owned"),
         processed.out, <<"compress", "cipher", "cipher">>, 0,
         <<first.input, processed.input>>, 0)

EncodePlainTwiceFirst(compressed, first) ==
  EncodePlainTwiceProcessed(compressed, first, CipherProcess(first.ctx, first.out))

EncodePlainTwiceCompressed(ctx, compressed) ==
  EncodePlainTwiceFirst(compressed, CipherProcess(ctx, compressed.bytes))

EncodePlainCipherTwice(ctx, data, size) ==
  EncodePlainTwiceCompressed(ctx, compress(ctx, data, size))

\* The encode branch returning the compressed bytes, not the cipher's.
EncodePlainUncipheredProcessed(compressed, processed) ==
  Handed(processed.ctx, compressed.allocs, compressed.bytes,
         <<"compress", "cipher">>, 0, <<processed.input>>, 0)

EncodePlainUncipheredCompressed(ctx, compressed) ==
  EncodePlainUncipheredProcessed(compressed, CipherProcess(ctx, compressed.bytes))

EncodePlainUnciphered(ctx, data, size) ==
  EncodePlainUncipheredCompressed(ctx, compress(ctx, data, size))

EncodePlain(ctx, data, size) == EncodePlainCompressed(ctx, compress(ctx, data, size))

\* The decode branch with debug output (two lines printed, none when the
\* cipher stage yields nothing).
DecodeDebugDecompressed(decrypted, decompressed) ==
  IF decompressed.panic
  THEN Panicked(decrypted.ctx, <<"cipher", "decompress">>, 1, <<decrypted.input>>,
                Spent(decrypted) \o decompressed.allocs)
  ELSE Handed(decrypted.ctx, Spent(decrypted) \o decompressed.allocs,
              decompressed.bytes, <<"cipher", "decompress">>, 2, <<decrypted.input>>,
              decompressed.written)

DecodeDebugDecrypted(decrypted) ==
  IF Len(decrypted.out) = 0
  THEN ShortCircuit(decrypted)
  ELSE DecodeDebugDecompressed(
         decrypted,
         decompress(decrypted.ctx, decrypted.out, decrypted.ctx.prealloc_size))

\* The debug decode branch without the check of the cipher stage's result.
DecodeDebugUncheckedDecrypted(decrypted) ==
  DecodeDebugDecompressed(
    decrypted, decompress(decrypted.ctx, decrypted.out, decrypted.ctx.prealloc_size))

DecodeDebugUnchecked(ctx, data, size) ==
  DecodeDebugUncheckedDecrypted(CipherProcess(ctx, data))

DecodeDebug(ctx, data, size) == DecodeDebugDecrypted(CipherProcess(ctx, data))

\* The decode branch without debug output.
DecodePlainDecompressed(decrypted, decompressed) ==
  IF decompressed.panic
  THEN Panicked(decrypted.ctx, <<"cipher", "decompress">>, 0, <<decrypted.input>>,
                Spent(decrypted) \o decompressed.allocs)
  ELSE Handed(decrypted.ctx, Spent(decrypted) \o decompressed.allocs,
              decompressed.bytes, <<"cipher", "decompress">>, 0, <<decrypted.input>>,
              decompressed.written)

DecodePlainDecrypted(decrypted) ==
  IF Len(decrypted.out) = 0
  THEN ShortCircuit(decrypted)
  ELSE DecodePlainDecompressed(
         decrypted,
         decompress(decrypted.ctx, decrypted.out, decrypted.ctx.prealloc_size))

\* The decode branch without the check of the cipher stage's result.
DecodePlainUncheckedDecrypted(decrypted) ==
  DecodePlainDecompressed(
    decrypted, decompress(decrypted.ctx, decrypted.out, decrypted.ctx.prealloc_size))

DecodePlainUnchecked(ctx, data, size) ==
  DecodePlainUncheckedDecrypted(CipherProcess(ctx, data))

\* The decode branch with the result dropped instead of forgotten.
DecodePlainDroppedDecompressed(decrypted, decompressed) ==
  HandedDropped(decrypted.ctx, Spent(decrypted) \o decompressed.allocs,
                decompressed.bytes, <<"cipher", "decompress">>, 0,
                <<decrypted.input>>, decompressed.written)

DecodePlainDroppedDecrypted(decrypted) ==
  IF Len(decrypted.out) = 0
  THEN ShortCircuit(decrypted)
  ELSE DecodePlainDroppedDecompressed(
         decrypted,
         decompress(decrypted.ctx, decrypted.out, decrypted.ctx.prealloc_size))

DecodePlainDropped(ctx, data, size) ==
  DecodePlainDroppedDecrypted(CipherProcess(ctx, data))

\* The decode branch decompressing the input instead of the decrypted data.
DecodePlainRawDecrypted(data, decrypted) ==
  IF Len(decrypted.out) = 0
  THEN ShortCircuit(decrypted)
  ELSE DecodePlainDecompressed(
         decrypted, decompress(decrypted.ctx, data, decrypted.ctx.prealloc_size))

DecodePlainRawInput(ctx, data, size) ==
  DecodePlainRawDecrypted(data, CipherProcess(ctx, data))

DecodePlain(ctx, data, size) == DecodePlainDecrypted(CipherProcess(ctx, data))

\* The body of NativeProcessor.process on the context the handle names.
process(ctx, data, size) ==
  IF ctx.encryption_mode_toggle
  THEN IF ctx.debug THEN EncodeDebug(ctx, data, size) ELSE EncodePlain(ctx, data, size)
  ELSE IF ctx.debug THEN DecodeDebug(ctx, data, size) ELSE DecodePlain(ctx, data, size)

\* ------------------------------------------------------------------ state
VARIABLES
  ctxs,       \* handle -> Context: the contexts the host holds a handle of
  heap,       \* address -> cell: the live allocations
  destroyed,  \* the handles passed to destroyContext
  calls,      \* the number of process calls made
  wire,       \* the latest region an Encode context returned
  last,       \* the process call that has just returned, and its outcome
  solo,       \* handle -> Context: each context with its calls run alone
  twin        \* handle -> Context: each context's double with debug negated

vars == <<ctxs, heap, destroyed, calls, wire, last, solo, twin>>

\* Where a returned buffer comes from: the encode call that produced it.
NoTag == [from |-> NULL, ord |-> 0, plain |-> <<>>, key |-> 0, iv |-> 0]

\* A live allocation: what it is ("Host", "Context", "Vec", "Box") and who
\* can still release it: the core, the host, or nobody ("lost").
Cell(kind, owner) == [kind |-> kind, owner |-> owner]

\* The host's own buffer, from which it submits data it wrote itself.
HostBuf == 2

\* The allocator: the k lowest free addresses from `from` on.
RECURSIVE Fresh(_, _, _)
Fresh(used, from, k) ==
  IF k = 0 THEN <<>>
  ELSE IF from \in used THEN Fresh(used, from + 1, k)
  ELSE <<from>> \o Fresh(used, from + 1, k - 1)

Handles == DOMAIN ctxs

\* A handle ignored: whatever context was created first.
DerefFirst(h) == CHOOSE g \in Handles : \A x \in Handles : g <= x

\* `ctx as *mut Context`: the context a handle names.
Deref(h) == h

NoWire == [addr |-> NULL, bytes |-> <<>>, tag |-> NoTag]

NoCall ==
  [h |-> NULL, pre |-> createNewContext(TRUE), in_addr |-> NULL, data |-> <<>>,
   tag |-> NoTag, intact |-> FALSE, panic |-> FALSE,
   desc |-> [address |-> NULL, length |-> 0], ptr |-> "null", bytes |-> <<>>,
   stages |-> <<>>,
   prints |-> 0, inputs |-> <<>>, written |-> 0, born |-> {},
   solo |-> [bytes |-> <<>>, stages |-> <<>>],
   twin |-> [bytes |-> <<>>, stages |-> <<>>, size |-> 0, ptr |-> "null"]]

Init ==
  /\ ctxs = <<>>
  /\ heap = (HostBuf :> Cell("Host", "host"))
  /\ destroyed = {}
  /\ calls = 0
  /\ wire = NoWire
  /\ last = NoCall
  /\ solo = <<>>
  /\ twin = <<>>

\* ------------------------------------------------------------ operations
Without(f, h) == [x \in DOMAIN f \ {h} |-> f[x]]

Created == {a \in DOMAIN heap : heap[a].kind = "Context"} \cup destroyed

\* No panic has reached the foreign boundary: the process is running.
Running == ~last.panic

\* The record of a call other than process that panicked.
Fault == [NoCall EXCEPT !.panic = TRUE]

CreateNewContext(toggle) ==
  /\ Running
  /\ Cardinality(Created) < MaxCtx
  /\ LET h == Fresh(DOMAIN heap, HostBuf, 1)[1]
         ctx == createNewContext(toggle)
     IN /\ heap' = heap @@ (h :> Cell("Context", "core"))
        /\ ctxs' = ctxs @@ (h :> ctx)
        /\ solo' = solo @@ (h :> ctx)
        /\ twin' = twin @@ (h :> [ctx EXCEPT !.debug = ~ctx.debug])
  /\ last' = NoCall
  /\ UNCHANGED <<destroyed, calls, wire>>

\* The return of enableCrypto on h: r is what it did to the context, s
\* and t what it did to the context run alone and to its double.
Enabled(h, r, s, t) ==
  /\ ctxs' = [ctxs EXCEPT ![Deref(h)] = r.ctx]
  /\ solo' = [solo EXCEPT ![h] = s.ctx]
  /\ twin' = [twin EXCEPT ![h] = t.ctx]
  /\ last' = IF r.panic THEN Fault ELSE NoCall

EnableCrypto(h, key, iv) ==
  /\ Running
  /\ h \in Handles
  /\ ctxs[Deref(h)].aes = None
  /\ Enabled(h, enableCrypto(ctxs[Deref(h)], key, iv),
              enableCrypto(solo[h], key, iv), enableCrypto(twin[h], key, iv))
  /\ UNCHANGED <<heap, destroyed, calls, wire>>

\* mem::drop of the raw pointer: the heap after destroyContext.
destroyContext(hp, raw_ptr) == hp

\* After the call the host gives the handle up.
DestroyContext(h) ==
  /\ Running
  /\ h \in Handles
  /\ heap' = destroyContext(heap, Deref(h))
  /\ destroyed' = destroyed \cup {h}
  /\ ctxs' = Without(ctxs, h)
  /\ solo' = Without(solo, h)
  /\ twin' = Without(twin, h)
  /\ last' = NoCall
  /\ UNCHANGED <<calls, wire>>

Debug(h, debug_mode) ==
  /\ Running
  /\ h \in Handles
  /\ ctxs' = [ctxs EXCEPT ![Deref(h)] = debug(ctxs[Deref(h)], debug_mode)]
  /\ solo' = [solo EXCEPT ![h] = debug(solo[h], debug_mode)]
  /\ twin' = [twin EXCEPT ![h] = debug(twin[h], ~debug_mode)]
  /\ last' = NoCall
  /\ UNCHANGED <<heap, destroyed, calls, wire>>

PreallocSize(h, prealloc_size) ==
  /\ Running
  /\ h \in Handles
  /\ ctxs' = [ctxs EXCEPT ![Deref(h)] = preallocSize(ctxs[Deref(h)], prealloc_size)]
  /\ solo' = [solo EXCEPT ![h] = preallocSize(solo[h], prealloc_size)]
  /\ twin' = [twin EXCEPT ![h] = preallocSize(twin[h], prealloc_size)]
  /\ last' = NoCall
  /\ UNCHANGED <<heap, destroyed, calls, wire>>

\* The sizes the host sets: a negative one and those up to MaxPrealloc.
PreallocArgs == {-1} \cup (0 .. MaxPrealloc)

Input(addr, data, tag, intact) ==
  [addr |-> addr, data |-> data, tag |-> tag, intact |-> intact]

\* What the host submits: data it wrote itself and, to a Decode context,
\* the latest encoded region, as it is or copied with one byte changed.
Inputs(ctx) ==
  {Input(HostBuf, d, NoTag, FALSE) : d \in HostData}
  \cup (IF ctx.encryption_mode_toggle \/ wire.addr = NULL THEN {}
        ELSE {Input(wire.addr, wire.bytes, wire.tag, TRUE)}
             \cup UNION {{Input(HostBuf, [wire.bytes EXCEPT ![i] = v], wire.tag, FALSE)
                          : v \in Byte \ {wire.bytes[i]}}
                         : i \in 1 .. Len(wire.bytes)})

\* The address create_jvm_fat_pointer receives for a pointer.
AddressOf(ptr, addrs) ==
  IF ptr.tag = "null" THEN NULL
  ELSE IF ptr.tag = "dangling" THEN Dangling
  ELSE addrs[ptr.idx]

\* The cell of an allocation that outlives its call.
Survivor(a) == Cell(a.kind, IF a.fate = "returned" THEN "host" ELSE "lost")

Kept(allocs) == {i \in 1 .. Len(allocs) : allocs[i].fate # "freed"}

\* The heap after a call that made `allocs` at `addrs`.
HeapAfter(hp, allocs, addrs) ==
  [a \in DOMAIN hp \cup {addrs[i] : i \in Kept(allocs)} |->
     IF a \in DOMAIN hp THEN hp[a]
     ELSE Survivor(allocs[CHOOSE i \in Kept(allocs) : addrs[i] = a])]

\* The return of a process call on h: pre is the context as the call
\* found it, r the outcome, s and t the outcomes for the context run
\* alone and for its double.
Returns(h, inp, pre, r, s, t, addrs) ==
  /\ ctxs' = [ctxs EXCEPT ![Deref(h)] = r.ctx]
  /\ solo' = [solo EXCEPT ![h] = s.ctx]
  /\ twin' = [twin EXCEPT ![h] = t.ctx]
  /\ heap' = HeapAfter(heap, r.allocs, addrs)
  /\ wire' = IF pre.encryption_mode_toggle /\ ~r.panic
             THEN [addr |-> AddressOf(r.ptr, addrs), bytes |-> r.bytes,
                   tag |-> [from |-> h, ord |-> pre.counter, plain |-> inp.data,
                            key |-> pre.aes[1][1], iv |-> pre.aes[1][2]]]
             ELSE wire
  /\ last' = [h |-> h, pre |-> pre, in_addr |-> inp.addr, data |-> inp.data,
              tag |-> inp.tag, intact |-> inp.intact, panic |-> r.panic,
              desc |-> [address |-> AddressOf(r.ptr, addrs), length |-> AsI32(r.size)],
              ptr |-> r.ptr.tag,
              bytes |-> r.bytes, stages |-> r.stages, prints |-> r.prints,
              inputs |-> r.inputs, written |-> r.written,
              born |-> {addrs[i] : i \in 1 .. Len(addrs)},
              solo |-> [bytes |-> s.bytes, stages |-> s.stages],
              twin |-> [bytes |-> t.bytes, stages |-> t.stages,
                        size |-> t.size, ptr |-> t.ptr.tag]]

Allocated(h, inp, pre, r, s, t) ==
  Returns(h, inp, pre, r, s, t, Fresh(DOMAIN heap, HostBuf, Len(r.allocs)))

ProcessWithin(h, inp, budget) ==
  /\ Running
  /\ h \in Handles
  /\ calls < budget
  /\ ctxs[Deref(h)].aes # None
  /\ Allocated(h, inp, ctxs[Deref(h)],
               process(ctxs[Deref(h)], inp.data, Len(inp.data)),
               process(solo[h], inp.data, Len(inp.data)),
               process(twin[h], inp.data, Len(inp.data)))
  /\ calls' = calls + 1
  /\ UNCHANGED destroyed

Process(h, inp) == ProcessWithin(h, inp, MaxCalls)

Next ==
  \/ \E toggle \in BOOLEAN : CreateNewContext(toggle)
  \/ \E h \in Handles, key \in JavaArrays(Keys), iv \in JavaArrays(IVs) :
       EnableCrypto(h, key, iv)
  \/ \E h \in Handles : DestroyContext(h)
  \/ \E h \in Handles, debug_mode \in BOOLEAN : Debug(h, debug_mode)
  \/ \E h \in Handles, n \in PreallocArgs : PreallocSize(h, n)
  \/ \E h \in Handles : \E inp \in Inputs(ctxs[h]) : Process(h, inp)

Spec == Init /\ [][Next]_vars

\* --------------------------------------------------- lockstep operation
\* The host running contexts pairwise in lockstep: an Encode context
\* processes host data once every initialized Decode context has caught
\* up with it, and a Decode context processes the latest encoded region,
\* untouched, as the call of the same ordinal.
PairInputs(h) ==
  IF ctxs[h].encryption_mode_toggle
  THEN IF \A g \in Handles :
            (~ctxs[g].encryption_mode_toggle /\ ctxs[g].aes # None)
              => ctxs[g].counter >= ctxs[h].counter
       THEN {Input(HostBuf, d, NoTag, FALSE) : d \in HostData}
       ELSE {}
  ELSE IF wire.addr # NULL /\ wire.tag.ord = ctxs[h].counter
       THEN {Input(wire.addr, wire.bytes, wire.tag, TRUE)}
       ELSE {}

PairProcess(h, inp) == ProcessWithin(h, inp, PairCalls)

PairNext ==
  \/ \E toggle \in BOOLEAN : CreateNewContext(toggle)
  \/ \E h \in Handles, key \in JavaArrays(Keys), iv \in JavaArrays(IVs) :
       EnableCrypto(h, key, iv)
  \/ \E h \in Handles, n \in PreallocArgs : PreallocSize(h, n)
  \/ \E h \in Handles : \E inp \in PairInputs(h) : PairProcess(h, inp)

PairSpec == Init /\ [][PairNext]_vars

\* ----------------------------------------------------------------- claims
\* A process call has just returned.
Called == last.h # NULL

DecodeCalled == Called /\ ~last.pre.encryption_mode_toggle

EncodeCalled == Called /\ last.pre.encryption_mode_toggle

NullDescriptor == [address |-> NULL, length |-> 0]

\* What the cipher stage of the call that has just returned yielded.
LastDecrypted == CipherProcess(last.pre, last.data)

\* What the codec reports for it under the context's preallocation size.
LastInflated == deflate_decompress(LastDecrypted.out, LastDecrypted.ctx.prealloc_size)

\* The call that has just returned decoded, untouched, the region an
\* Encode context with the same key and IV returned from its call of the
\* same ordinal.
PairedDecode ==
  /\ DecodeCalled
  /\ last.intact
  /\ last.tag.from # NULL
  /\ last.tag.ord = last.pre.counter
  /\ last.tag.key = last.pre.aes[1][1]
  /\ last.tag.iv = last.pre.aes[1][2]

RoundTrip == last.bytes = last.tag.plain /\ last.desc.length = Len(last.tag.plain)

\* C1 (as claimed): every paired decode returns exactly the data encoded.
C1_RoundTripAny == PairedDecode => RoundTrip

\* C1 (amended): every paired decode of data no longer than the Decode
\* context's preallocation size, that size being one a Vec can have,
\* returns exactly the data encoded.
C1_RoundTrip ==
  (/\ PairedDecode
   /\ Len(last.tag.plain) <= last.pre.prealloc_size
   /\ ~CapacityOverflow(last.pre.prealloc_size)) => RoundTrip

\* The second paired decode of a pair returned the two bytes encoded.
C1_Witness ==
  /\ PairedDecode
  /\ last.pre.counter = 1
  /\ Len(last.tag.plain) = 2
  /\ RoundTrip

\* C2: a Decode call runs the cipher stage first, and when that stage
\* yields nothing the call returns (address 0, length 0) with the
\* decompressor never invoked.
C2_DecodeShortCircuit ==
  DecodeCalled =>
    /\ Len(last.stages) >= 1
    /\ last.stages[1] = "cipher"
    /\ (LastDecrypted.out = <<>> =>
          /\ last.desc = NullDescriptor
          /\ last.stages = <<"cipher">>)

\* A corrupted copy of an encoded region was decoded and rejected by the cipher.
C2_Witness ==
  /\ DecodeCalled
  /\ last.tag.from # NULL
  /\ ~last.intact
  /\ LastDecrypted.out = <<>>
  /\ last.desc = NullDescriptor

\* C3 (as claimed): a Decode call whose decompression fails returns the
\* same descriptor as one whose cipher stage fails: address 0, length 0.
C3_FailuresIdentical ==
  (DecodeCalled /\ LastDecrypted.out # <<>> /\ LastInflated.is_err) =>
    last.desc = NullDescriptor

\* C4: a Decode call whose preallocation size is smaller than the true
\* decompressed size of its payload returns a zero-length result, no
\* prefix of the payload, and the codec writes no more than the buffer holds.
C4_UndersizedPrealloc ==
  (/\ DecodeCalled
   /\ LastDecrypted.out # <<>>
   /\ Inflate(LastDecrypted.out).ok
   /\ Len(Inflate(LastDecrypted.out).out) > last.pre.prealloc_size) =>
    /\ last.desc.length = 0
    /\ last.bytes = <<>>
    /\ last.written <= last.pre.prealloc_size

\* A two-byte payload met a one-byte preallocation.
C4_Witness ==
  /\ DecodeCalled
  /\ LastDecrypted.out # <<>>
  /\ Inflate(LastDecrypted.out).ok
  /\ last.pre.prealloc_size = 1
  /\ Len(Inflate(LastDecrypted.out).out) = 2
  /\ last.desc.length = 0

\* C5: every process call performs exactly one cipher operation, which
\* derives its input from the counter as it stood and leaves the counter
\* one higher; no operation ever lowers a context's counter or leaves it
\* unchanged across a process call on it.
C5_CounterMonotonic ==
  /\ [](Called =>
          /\ last.inputs = <<last.pre.counter>>
          /\ ctxs[last.h].counter = last.pre.counter + 1)
  /\ [][\A h \in Handles \cap DOMAIN ctxs' :
          /\ ctxs'[h].counter >= ctxs[h].counter
          /\ (last'.h = h => ctxs'[h].counter > ctxs[h].counter)]_vars

\* A context has made two calls, the second with cipher input 1.
C5_Witness ==
  /\ Called
  /\ last.pre.counter = 1
  /\ last.inputs = <<1>>
  /\ ctxs[last.h].counter = 2

\* C6 (as claimed): once destroyContext has returned, the Context
\* allocation of the handle is no longer live.
C6_DestroyReleases == \A h \in destroyed : h \notin DOMAIN heap

\* C7: every context holds exactly one codec handle: the compressor if
\* and only if its mode is Encode, the decompressor if and only if Decode.
C7_OneCodecHandle ==
  \A h \in Handles :
    /\ (ctxs[h].compressor # None) <=> ctxs[h].encryption_mode_toggle
    /\ (ctxs[h].decompressor # None) <=> ~ctxs[h].encryption_mode_toggle

\* An initialized Decode context with a changed preallocation size has
\* processed data, beside an Encode context.
C7_Witness ==
  /\ DecodeCalled
  /\ ctxs[last.h].prealloc_size # DefaultPreallocSize
  /\ ctxs[last.h].decompressor # None
  /\ \E g \in Handles : ctxs[g].compressor # None /\ ctxs[g].counter > 0

\* C8: the address of a non-empty result is that of a region allocated
\* during the call, live and in the host's hands when the call returns,
\* and not the input region; and no operation of the core ever frees a
\* region in the host's hands: not the host's own buffer, not a region
\* an earlier call returned.
C8_OutputOwnership ==
  /\ []((Called /\ last.desc.length > 0) =>
          /\ last.desc.address \in last.born
          /\ last.desc.address \in DOMAIN heap
          /\ heap[last.desc.address] = Cell("Vec", "host")
          /\ last.desc.address # last.in_addr)
  /\ [][\A a \in DOMAIN heap :
          heap[a].owner = "host" => (a \in DOMAIN heap' /\ heap'[a] = heap[a])]_vars

\* A Decode call has returned a non-empty result decoded from an encoded
\* region, which is still live.
C8_Witness ==
  /\ DecodeCalled
  /\ last.intact
  /\ last.desc.length > 0
  /\ last.in_addr \in DOMAIN heap
  /\ last.desc.address \in DOMAIN heap
  /\ destroyed # {}

\* C9: a context and its double, identical but for the debug flag and
\* given the same calls, run the same stages, return the same bytes,
\* length and kind of result, and stay identical but for the debug flag.
C9_DebugNonInterference ==
  /\ Called =>
       /\ last.twin.stages = last.stages
       /\ last.twin.bytes = last.bytes
       /\ last.twin.size = Len(last.bytes)
       /\ last.twin.ptr = last.ptr
  /\ \A h \in Handles :
       /\ twin[h].debug = ~ctxs[h].debug
       /\ [twin[h] EXCEPT !.debug = ctxs[h].debug] = ctxs[h]

\* A context with debug set has decoded a payload, printing its two lines.
C9_Witness ==
  /\ DecodeCalled
  /\ last.pre.debug
  /\ last.prints = 2
  /\ last.bytes # <<>>

Returned == Called /\ ~last.panic

\* C11 (as claimed): no process call on a created and initialized context
\* ends in a panic; every one returns a descriptor.
C11_NoFault == Called => ~last.panic

\* The context of h has neither key nor cipher state.
Uninitialized(c) == c.key = None /\ c.aes = None

\* The step is an enableCrypto call on h.
EnablesCrypto(h) ==
  \E key \in JavaArrays(Keys), iv \in JavaArrays(IVs) : EnableCrypto(h, key, iv)

\* C12: a context is created with neither key nor cipher state, and stays
\* without them across every step that is not an enableCrypto call on it.
C12_NoneUntilInitialize ==
  /\ [][\A h \in DOMAIN ctxs' \ Handles : Uninitialized(ctxs'[h])]_vars
  /\ [][\A h \in Handles \cap DOMAIN ctxs' :
          (Uninitialized(ctxs[h]) /\ ~EnablesCrypto(h)) => Uninitialized(ctxs'[h])]_vars

\* A context has had both setters called and is still without key and
\* cipher state, after another context was destroyed.
C12_Witness ==
  /\ destroyed # {}
  /\ \E h \in Handles :
       /\ Uninitialized(ctxs[h])
       /\ ctxs[h].debug
       /\ ctxs[h].prealloc_size # DefaultPreallocSize

\* C13: an enableCrypto call whose key or IV cannot be converted fails
\* with every field of the context as it was, key and cipher state None.
C13_FailedInitialize ==
  [][\A h \in Handles :
       \A key \in JavaArrays(Keys), iv \in JavaArrays(IVs) :
         ((key = None \/ iv = None) /\ EnableCrypto(h, key, iv)) =>
           /\ last'.panic
           /\ ctxs' = ctxs
           /\ Uninitialized(ctxs'[h])]_vars

\* An enableCrypto call has failed on a context configured before it.
C13_Witness ==
  /\ last = Fault
  /\ \E h \in Handles :
       /\ Uninitialized(ctxs[h])
       /\ ctxs[h].debug
       /\ ctxs[h].prealloc_size # DefaultPreallocSize

\* A context is created with debug off and the 2 MiB size.
CreatedUnconfigured ==
  \A h \in DOMAIN ctxs' \ Handles :
    ~ctxs'[h].debug /\ ctxs'[h].prealloc_size = DefaultPreallocSize

\* A debug call on h leaves debug at its argument and nothing else changed.
DebugStored(h) ==
  \A d \in BOOLEAN : Debug(h, d) => ctxs'[h] = [ctxs[h] EXCEPT !.debug = d]

\* A preallocSize call on h with argument n leaves prealloc_size at v and
\* nothing else changed.
PreallocStored(h, n, v) ==
  PreallocSize(h, n) => ctxs'[h] = [ctxs[h] EXCEPT !.prealloc_size = v]

\* Only its own setter changes debug or prealloc_size of h.
ConfiguredBySetters(h) ==
  /\ ctxs'[h].debug # ctxs[h].debug => \E d \in BOOLEAN : Debug(h, d)
  /\ ctxs'[h].prealloc_size # ctxs[h].prealloc_size =>
       \E n \in PreallocArgs : PreallocSize(h, n)

\* C14 (as claimed): debug and prealloc_size are the arguments of the last
\* call of their setters (off and 2 MiB if none), and a setter changes
\* only its own field.
C14_LastArgument ==
  /\ [][CreatedUnconfigured]_vars
  /\ [][\A h \in Handles : DebugStored(h)]_vars
  /\ [][\A h \in Handles : \A n \in PreallocArgs : PreallocStored(h, n, n)]_vars
  /\ [][\A h \in Handles \cap DOMAIN ctxs' : ConfiguredBySetters(h)]_vars

\* C14 (amended): the same with prealloc_size the last argument converted
\* to usize, which is the argument itself only when it is not negative.
C14_LastValue ==
  /\ [][CreatedUnconfigured]_vars
  /\ [][\A h \in Handles : DebugStored(h)]_vars
  /\ [][\A h \in Handles : \A n \in PreallocArgs : PreallocStored(h, n, AsUsize(n))]_vars
  /\ [][\A h \in Handles \cap DOMAIN ctxs' : ConfiguredBySetters(h)]_vars

\* A context that has processed data has debug on and the size 0, both
\* set by their setters.
C14_Witness ==
  \E h \in Handles :
    /\ ctxs[h].debug
    /\ ctxs[h].prealloc_size = 0
    /\ ctxs[h].counter > 0

\* C15: a context is created in the mode passed to create, no step
\* changes the mode of a context, and every process call compresses first
\* exactly when the mode is Encode and deciphers first exactly when Decode.
C15_ModeFixed ==
  /\ [][\A toggle \in BOOLEAN :
          CreateNewContext(toggle) =>
            \A h \in DOMAIN ctxs' \ Handles : ctxs'[h].encryption_mode_toggle = toggle]_vars
  /\ [][\A h \in Handles \cap DOMAIN ctxs' :
          ctxs'[h].encryption_mode_toggle = ctxs[h].encryption_mode_toggle]_vars
  /\ [](Called =>
          /\ ctxs[last.h].encryption_mode_toggle = last.pre.encryption_mode_toggle
          /\ last.stages[1] = IF last.pre.encryption_mode_toggle
                              THEN "compress" ELSE "cipher")

\* A Decode context, initialized and reconfigured by both setters, has
\* processed data as a Decode context, after another was destroyed.
C15_Witness ==
  /\ DecodeCalled
  /\ destroyed # {}
  /\ last.pre.debug
  /\ last.pre.prealloc_size # DefaultPreallocSize
  /\ last.stages[1] = "cipher"
  /\ ~ctxs[last.h].encryption_mode_toggle

\* The sizes a context can hold.
PreallocSizes == {AsUsize(n) : n \in PreallocArgs} \cup {DefaultPreallocSize}

\* The outcome alt, of the call that has just returned made with another
\* preallocation size, is the outcome the call had.
SameOutcome(alt) ==
  /\ alt.panic = last.panic
  /\ alt.bytes = last.bytes
  /\ AsI32(alt.size) = last.desc.length
  /\ alt.stages = last.stages
  /\ [alt.ctx EXCEPT !.prealloc_size = last.pre.prealloc_size] = ctxs[last.h]

\* C16: an Encode call returns the same bytes and length and leaves the
\* same context whatever the preallocation size.
C16_PreallocDecodeOnly ==
  EncodeCalled =>
    \A n \in PreallocSizes :
      SameOutcome(process([last.pre EXCEPT !.prealloc_size = n],
                          last.data, Len(last.data)))

\* An Encode context with the size 0 has encoded data of the greatest length.
C16_Witness ==
  /\ EncodeCalled
  /\ last.pre.prealloc_size = 0
  /\ Len(last.data) = MaxLen
  /\ last.desc.length > 0

\* A stage of the Decode call that has just returned failed.
CipherFailed == Len(LastDecrypted.out) = 0

DecompressFailed == ~CipherFailed /\ LastInflated.is_err

\* C17 (as claimed): a Decode call returns a zero-length result only when
\* its cipher stage or its decompression stage failed.
C17_ZeroOnlyOnFailure ==
  (DecodeCalled /\ Returned /\ last.desc.length = 0) =>
    (CipherFailed \/ DecompressFailed)

\* C17 (amended): a Decode call whose cipher or decompression stage failed
\* returns a zero-length result, and any other returns one only when the
\* data decompressed is itself empty.
C17_ZeroOnFailureOrEmpty ==
  (DecodeCalled /\ Returned) =>
    /\ (CipherFailed \/ DecompressFailed) => last.desc.length = 0
    /\ last.desc.length = 0 =>
         (CipherFailed \/ DecompressFailed \/ LastInflated.n = 0)

\* A Decode call has decoded, both stages succeeding, the region encoded
\* from the empty sequence, and returned length 0.
C17_Witness ==
  /\ PairedDecode
  /\ Returned
  /\ last.tag.plain = <<>>
  /\ ~CipherFailed
  /\ ~LastInflated.is_err
  /\ last.desc.length = 0

\* The Encode call that has just returned handed on what the cipher
\* operation `processed` yielded, as it is.
CipherResultReturned(processed) ==
  /\ last.bytes = processed.out
  /\ last.desc.length = Len(processed.out)
  /\ ctxs[last.h] = processed.ctx

C19_DecodeBounded ==
  (DecodeCalled /\ Returned) =>
    /\ Len(last.bytes) <= last.pre.prealloc_size
    /\ last.desc.length = Len(last.bytes)
    /\ (~CipherFailed /\ ~LastInflated.is_err) =>
         /\ last.bytes = Inflate(LastDecrypted.out).out
         /\ last.desc.length = LastInflated.n

\* A Decode context with the 2 MiB size has decoded data of the greatest
\* length: the result has that length, not the buffer's.
C19_Witness ==
  /\ DecodeCalled
  /\ Returned
  /\ ~CipherFailed
  /\ ~LastInflated.is_err
  /\ last.pre.prealloc_size = DefaultPreallocSize
  /\ last.desc.length = MaxLen

\* C20 (as claimed): when a process call returns, every allocation it made
\* that is still live is the region its descriptor names, and no
\* allocation is live that neither the core nor the host can release.
C20_NoUnreachableAllocation ==
  /\ Called => \A a \in last.born \cap DOMAIN heap : a = last.desc.address
  /\ \A a \in DOMAIN heap : heap[a].owner # "lost"

====
